---------------------------- MODULE Spec2Model ----------------------------
(* A model of numbfs fsck (src/fsck.c) reading a device laid out as in     *)
(* src/disk.h.  The program is one sequential process; pc is its position. *)
(* The device, the command line and the outcome of every read are inputs.  *)
EXTENDS Integers, Sequences, FiniteSets, TLC

(* ---------------------------------------------------------------------- *)
(* Program constants                                                       *)
(* ---------------------------------------------------------------------- *)
BYTES_PER_BLOCK == 512

DirentSize == 64

TimestampsSize == 32

NUMBFS_XATTR_MAXNAME == 16

NUMBFS_XATTR_MAXVALUE == 32

NUMBFS_NUM_DATA_ENTRY == 10

DT_DIR == 4

DT_LNK == 10

EIO == 5

ENOMEM == 12

XattrEntrySize == 4 + NUMBFS_XATTR_MAXNAME + NUMBFS_XATTR_MAXVALUE

NUMBFS_XATTR_MAX_ENTRY == (BYTES_PER_BLOCK - TimestampsSize) \div XattrEntrySize

NUMBFS_XATTR_ENTRY_START == TimestampsSize

(* ---------------------------------------------------------------------- *)
(* Bounds of the model                                                     *)
(* ---------------------------------------------------------------------- *)
MaxZoneBlocks == 2

MaxDirEntries == 17

MaxNid == 1

MaxGarbage == 1

(* ---------------------------------------------------------------------- *)
(* Pure functions of fsck.c                                                *)
(* ---------------------------------------------------------------------- *)
SPACE == 32

Min(a, b) == IF a < b THEN a ELSE b

\* A bitmap block is kept sparsely: the bytes that are not zero.
ByteAt(blk, k) == IF k \in DOMAIN blk THEN blk[k] ELSE 0

\* buf is char *: buf[k] is converted to the __u8 parameter of count_bit.
ToU8(c) == c % 256

RECURSIVE count_bit_loop(_, _, _, _)
count_bit_loop(byte, k, n, ret) ==
    IF k < n
    THEN count_bit_loop(byte \div 2, k + 1, n, ret + (byte % 2))
    ELSE ret

count_bit_short(byte) == count_bit_loop(ToU8(byte), 0, 7, 0)

count_bit(byte) == count_bit_loop(ToU8(byte), 0, 8, 0)

\* for (i = 0; i < BYTES_PER_BLOCK; i++) ret += count_bit(buf[i]);
\* the loop is evaluated in runs of ChunkBytes iterations, ret carried through.
ChunkBytes == 4 * 8

RECURSIVE fsck_used_run(_, _, _, _)
fsck_used_run(buf, k, stop, ret) ==
    IF k < stop
    THEN LET r == ret + count_bit(ByteAt(buf, k))
         IN  IF r >= 0 THEN fsck_used_run(buf, k + 1, stop, r) ELSE r
    ELSE ret

RECURSIVE fsck_used_loop(_, _, _)
fsck_used_loop(buf, k, ret) ==
    IF k < BYTES_PER_BLOCK
    THEN LET r == fsck_used_run(buf, k, Min(k + ChunkBytes, BYTES_PER_BLOCK), ret)
         IN  IF r >= 0 THEN fsck_used_loop(buf, Min(k + ChunkBytes, BYTES_PER_BLOCK), r) ELSE r
    ELSE ret

numbfs_fsck_used(buf) == fsck_used_loop(buf, 0, 0)

numbfs_dir_type(type) ==
    IF type = DT_DIR THEN "DIR    "
    ELSE IF type = DT_LNK THEN "SYMLINK"
    ELSE "REGULAR"

\* S_ISDIR / S_ISLNK: (mode & S_IFMT) == S_IFDIR / S_IFLNK
S_ISDIR(mode) == (mode \div 4096) % 16 = 4

S_ISLNK(mode) == (mode \div 4096) % 16 = 10

le16_to_cpu(lo, hi) == lo + 256 * hi

\* printf("%s"): the bytes up to the first NUL; when the buffer holds no NUL
\* the read runs past its end into whatever follows it (tail).
RECURSIVE CStrLen(_, _)
CStrLen(buf, k) ==
    IF k > Len(buf) THEN Len(buf)
    ELSE IF buf[k] = 0 THEN k - 1
    ELSE CStrLen(buf, k + 1)

PrintfS(buf, tail) ==
    IF CStrLen(buf, 1) < Len(buf)
    THEN SubSeq(buf, 1, CStrLen(buf, 1))
    ELSE buf \o tail

\* fsck.c:149-160: memset 0, pad with spaces from len up to max - 2, memcpy.
PadFront(max, len) == max - len - 1

PadField(max, bytes, len) ==
    [k \in 1..max |->
        IF k <= len THEN bytes[k]
        ELSE IF k - 1 - len < PadFront(max, len) THEN SPACE
        ELSE 0]


(* ---------------------------------------------------------------------- *)
(* The device: superblock, bitmap zones, inode table, data zone            *)
(* ---------------------------------------------------------------------- *)
\* Bitmap block contents the zones are filled with (byte offset -> byte).
BitmapPatterns ==
    << [k \in {} |-> 0],
       (0 :> 1),
       (0 :> 128 @@ 1 :> 3 @@ 511 :> 255),
       (255 :> 170 @@ 256 :> 85 @@ 510 :> 16) >>

PatternAt(seed, k) == BitmapPatterns[((seed + k) % Len(BitmapPatterns)) + 1]

\* The first block is reserved, the second holds the superblock (disk.h:15).
IBitmapStart == 1 + 1

\* Zone boundaries for nI inode-bitmap blocks, one inode-table block and
\* nB block-bitmap blocks.
Layout(nI, nB) ==
    [ibitmap_start |-> IBitmapStart,
     inode_start   |-> IBitmapStart + nI,
     bbitmap_start |-> IBitmapStart + nI + 1,
     data_start    |-> IBitmapStart + nI + 1 + nB]

BitmapBlocks(lay, seedI, seedB) ==
    [b \in (lay.ibitmap_start .. lay.inode_start - 1)
             \cup (lay.bbitmap_start .. lay.data_start - 1) |->
        IF b < lay.inode_start
        THEN PatternAt(seedI, b - lay.ibitmap_start)
        ELSE PatternAt(seedB, b - lay.bbitmap_start)]

\* The number of set bits of a zone, counted bit by bit (not by the loop of
\* the program): the k of the bitmap population property.
BitSet(byte, j) == (byte \div (2 ^ j)) % 2 = 1

ZoneBits(bitmap, from, to) ==
    Cardinality({ t \in UNION { { <<b, p, j>> : p \in DOMAIN bitmap[b], j \in 0..7 }
                                : b \in from .. to - 1 } :
                   BitSet(bitmap[t[1]][t[2]], t[3]) })

\* struct numbfs_dirent (disk.h:70-75); ino is stored little-endian.
Dirent(p, j) ==
    [name_len |-> (7 * j + p) % 61,
     type     |-> << DT_DIR, 8, DT_LNK >>[((j + p) % 3) + 1],
     ino_lo   |-> ((257 * j + 1000 * p + 1) % 65536) % 256,
     ino_hi   |-> ((257 * j + 1000 * p + 1) % 65536) \div 256]

DirentsPerBlock == BYTES_PER_BLOCK \div DirentSize

\* A directory data block: the records packed back to back.
DirBlock(p, b) == [s \in 1..DirentsPerBlock |-> Dirent(p, b * DirentsPerBlock + s - 1)]

NumDirBlocks == ((MaxDirEntries * DirentSize) \div BYTES_PER_BLOCK) + 1

\* struct numbfs_xattr_entry (disk.h:92-99) of slot s in an attribute block
\* whose valid slots are given by mask.
\* Slot 1 holds the name "user.x" with the value "1".
UserX == << 117, 115, 101, 114, 46, 120 >>

XattrName(s, len) ==
    [k \in 1..NUMBFS_XATTR_MAXNAME |->
        IF k > len THEN 0
        ELSE IF s = 1 THEN UserX[k]
        ELSE 97 + ((s + k) % 26)]

XattrValue(s, len) ==
    [k \in 1..NUMBFS_XATTR_MAXVALUE |->
        IF k > len THEN 0
        ELSE IF s = 1 THEN 49
        ELSE 48 + ((s + k) % 10)]

XattrEntry(mask, s) ==
    [e_valid |-> (mask \div (2 ^ (s - 1))) % 2,
     e_type  |-> 1 + (s % 2),
     e_nlen  |-> (9 * s + 14) % (NUMBFS_XATTR_MAXNAME + 1),
     e_vlen  |-> (31 * s + 3) % (NUMBFS_XATTR_MAXVALUE + 1),
     e_name  |-> XattrName(s, (9 * s + 14) % (NUMBFS_XATTR_MAXNAME + 1)),
     e_value |-> XattrValue(s, (31 * s + 3) % (NUMBFS_XATTR_MAXVALUE + 1))]

\* An attribute block: struct numbfs_timestamps, then the entry slots.
XattrBlock(mask, t) ==
    [ts    |-> [t_atime |-> t, t_mtime |-> t + 1, t_ctime |-> t + 2],
     slots |-> [s \in 1..NUMBFS_XATTR_MAX_ENTRY |-> XattrEntry(mask, s)]]

XattrMasks == {0, 1, 165, 338, 511}

XattrAddr(nid) == 20 + nid

\* struct numbfs_inode (disk.h:53-67), decoded.
Inode(nid, mode, size, count) ==
    [nlink |-> 1 + nid, uid |-> 1000, gid |-> 100,
     mode |-> mode, size |-> size,
     xattr_start |-> XattrAddr(nid), xattr_count |-> count,
     data |-> [k \in 1..NUMBFS_NUM_DATA_ENTRY |-> k]]

\* S_IFDIR | 0755, S_IFREG | 0644, S_IFLNK | 0777
ModeDir == 4 * 4096 + 493

ModeReg == 8 * 4096 + 420

ModeLnk == 10 * 4096 + 511

\* Inode 0 is the inode under study; the others are plain files and links.
InodeTable(mode, size, count) ==
    [n \in 0..MaxNid |->
        IF n = 0 THEN Inode(0, mode, size, count)
        ELSE Inode(n, IF n % 2 = 1 THEN ModeReg ELSE ModeLnk, 100 * n, n - 1)]

DirSizes == { n * DirentSize + r : n \in 0..MaxDirEntries, r \in {0, 1} }

\* (mode, size, xattr_count, mask, dirent pattern) of inode 0.
InodeVariants ==
    { <<ModeDir, s, 0, 0, p>> : s \in DirSizes, p \in 0..1 }
    \cup { <<ModeDir, 2 * DirentSize, c, x, 0>> : c \in {0, 1, 3}, x \in XattrMasks }
    \cup { <<m, 2 * DirentSize, 1, 165, 0>> : m \in {ModeReg, ModeLnk} }

DefaultInode == <<ModeDir, 2 * DirentSize, 1, 1, 0>>

\* (inode-bitmap blocks, pattern seed, inode counters agree, block counters agree)
BitmapVariants ==
    { <<n, s, okI, okB>> : n \in 1..MaxZoneBlocks, s \in 0..(Len(BitmapPatterns) - 1),
                           okI \in BOOLEAN, okB \in BOOLEAN }

DefaultBitmap == <<1, 1, TRUE, TRUE>>

Free(total, used, agree) ==
    IF agree THEN total - used
    ELSE IF used > 0 THEN total
    ELSE total - 1

Device(bv, iv) ==
    LET lay == Layout(bv[1], MaxZoneBlocks + 1 - bv[1])
        bm  == BitmapBlocks(lay, bv[2], bv[2] + 1)
        ti  == 8 * BYTES_PER_BLOCK * (lay.inode_start - lay.ibitmap_start)
        tb  == 8 * BYTES_PER_BLOCK * (lay.data_start - lay.bbitmap_start)
    IN  [sb |-> [ibitmap_start |-> lay.ibitmap_start,
                 inode_start   |-> lay.inode_start,
                 bbitmap_start |-> lay.bbitmap_start,
                 data_start    |-> lay.data_start,
                 total_inodes  |-> ti,
                 free_inodes   |-> Free(ti, ZoneBits(bm, lay.ibitmap_start, lay.inode_start), bv[3]),
                 data_blocks   |-> tb,
                 free_blocks   |-> Free(tb, ZoneBits(bm, lay.bbitmap_start, lay.data_start), bv[4])],
         bitmap  |-> bm,
         inodes  |-> InodeTable(iv[1], iv[2], iv[3]),
         xblocks |-> [a \in { XattrAddr(n) : n \in 0..MaxNid } |->
                        XattrBlock(IF a = XattrAddr(0) THEN iv[4] ELSE 165, 1700000000 + a)],
         dblocks |-> [a \in 1..NumDirBlocks |-> DirBlock(iv[5], a - 1)]]

\* The devices the runs start from: those whose bitmap zones vary, those
\* whose inode 0 varies, and a few on which only the counters vary.
BitmapImages == { Device(bv, DefaultInode) : bv \in BitmapVariants }

InodeImages == { Device(DefaultBitmap, iv) : iv \in InodeVariants }

MixedImages == { Device(<<1, 1, okI, okB>>, DefaultInode) : okI \in BOOLEAN, okB \in BOOLEAN }

(* ---------------------------------------------------------------------- *)
(* State                                                                   *)
(* ---------------------------------------------------------------------- *)
VARIABLES
    pc,        \* position of the program
    dev,       \* contents of the target device
    cfg,       \* struct numbfs_fsck_cfg after numbfs_fsck_parse_args
    sbi,       \* struct numbfs_superblock_info of numbfs_fsck
    i,         \* loop variable of numbfs_fsck
    cnt,       \* used-count of numbfs_fsck
    buf,       \* block buffer of numbfs_fsck
    err,       \* err of numbfs_fsck
    ni,        \* struct numbfs_inode_info of numbfs_fsck_show_inode
    si_i,      \* loop variable of numbfs_fsck_show_inode
    si_buf,    \* block buffer of numbfs_fsck_show_inode
    si_err,    \* err of numbfs_fsck_show_inode
    dx_i,      \* loop variable of numbfs_dump_xattrs
    dx_buf,    \* block buffer of numbfs_dump_xattrs
    out,       \* lines written to standard output
    diag,      \* lines written to standard error
    exitcode,  \* exit status of the process, -1 while it runs
    reads,     \* history: the reads issued, in order
    failures   \* history: the failures met, in order

vars == << pc, dev, cfg, sbi, i, cnt, buf, err, ni, si_i, si_buf, si_err,
           dx_i, dx_buf, out, diag, exitcode, reads, failures >>

fsckLocals == << sbi, i, cnt, buf, err >>

siLocals == << ni, si_i, si_buf, si_err >>

dxLocals == << dx_i, dx_buf >>

\* One line of output: the report section, the printf it comes from, and the
\* values printed (a number, a fixed string, two %s strings).
Line(sec, kind, n, t, s1, s2) ==
    [sec |-> sec, kind |-> kind, n |-> n, t |-> t, s1 |-> s1, s2 |-> s2]

Note(sec, kind, n) == Line(sec, kind, n, "", << >>, << >>)

Read(op, blk, ok) == [op |-> op, blk |-> blk, ok |-> ok]

NoInode == [nlink |-> 0, uid |-> 0, gid |-> 0, mode |-> 0, size |-> 0,
            xattr_start |-> 0, xattr_count |-> 0,
            data |-> [k \in 1..NUMBFS_NUM_DATA_ENTRY |-> 0]]

NoSuper == [ibitmap_start |-> 0, inode_start |-> 0, bbitmap_start |-> 0,
            data_start |-> 0, total_inodes |-> 0, free_inodes |-> 0,
            data_blocks |-> 0, free_blocks |-> 0]

NoBlock == [kind |-> "none"]

Configs == [show_inodes : BOOLEAN, show_blocks : BOOLEAN, nid : -1..MaxNid]

\* The command lines each kind of device is inspected with: the usage
\* options alone on the devices whose bitmaps vary, the inode detail alone
\* on those whose inode varies, and every selection of options on the rest.
BitmapConfigs == { c \in Configs : c.nid = -1 }

InodeConfigs == { c \in Configs : ~c.show_inodes /\ ~c.show_blocks /\ c.nid = 0 }

Inputs ==
    (BitmapImages \X BitmapConfigs)
    \cup (InodeImages \X InodeConfigs)
    \cup (MixedImages \X Configs)

Init ==
    /\ pc = "parse_args"
    /\ \E inp \in Inputs : dev = inp[1] /\ cfg = inp[2]
    /\ sbi = NoSuper
    /\ i = 0
    /\ cnt = 0
    /\ buf = NoBlock
    /\ err = 0
    /\ ni = NoInode
    /\ si_i = 0
    /\ si_buf = NoBlock
    /\ si_err = 0
    /\ dx_i = 0
    /\ dx_buf = NoBlock
    /\ out = << >>
    /\ diag = << >>
    /\ exitcode = -1
    /\ reads = << >>
    /\ failures = << >>

(* ---------------------------------------------------------------------- *)
(* The calls the program makes on the device                               *)
(* ---------------------------------------------------------------------- *)
\* pread(fd, buf, BYTES_PER_BLOCK, blk * BYTES_PER_BLOCK): what the call leaves
\* on the device, and what it leaves in buf when it returns a full block.
DevAfterPwrite(d, blk) == [d EXCEPT !.bitmap[blk] = [k \in {} |-> 0]]

DevAfterPread(d, blk) == d

PreadBlock(d, blk) == [kind |-> "bitmap", blk |-> d.bitmap[blk]]

\* numbfs_data_blk: the block address of a data-zone block.
numbfs_data_blk(sb, blk) == sb.data_start + blk

\* numbfs_read_block at the address numbfs_data_blk gives for block blk.
ReadXattrBlock(d, sb, blk) ==
    [kind |-> "xattr", blk |-> d.xblocks[numbfs_data_blk(sb, blk) - sb.data_start]]

\* numbfs_pread_inode(ni, buf, off, BYTES_PER_BLOCK): the block of the inode's
\* content that holds byte off.
PreadInode(d, inode, off) ==
    [kind |-> "dir", blk |-> d.dblocks[inode.data[(off \div BYTES_PER_BLOCK) + 1]]]

\* BUG_ON(cond): the process is halted when cond holds.
BUG_ON(cond) == cond

\* The entry at byte offset off of a directory block.
DirentAt(b, off) == b.blk[(off \div DirentSize) + 1]

\* The slot i (from 0) of an attribute block, NUMBFS_XATTR_ENTRY_START bytes in.
XattrSlot(b, k) ==
    b.blk.slots[((NUMBFS_XATTR_ENTRY_START + k * XattrEntrySize - TimestampsSize)
                    \div XattrEntrySize) + 1]

GarbageTails == UNION { [1..n -> {63}] : n \in 0..MaxGarbage }

(* ---------------------------------------------------------------------- *)
(* numbfs_fsck_parse_args, open                                            *)
(* ---------------------------------------------------------------------- *)
Exit(code) ==
    /\ pc' = "exited"
    /\ exitcode' = code

ParseArgs ==
    /\ pc = "parse_args"
    /\ \E outcome \in {"help", "unknown", "nodev", "ok"} :
         CASE outcome = "help" ->
                /\ out' = Append(out, Note("usage", "help", 0))
                /\ Exit(0)
                /\ UNCHANGED << diag, failures >>
           [] outcome = "unknown" ->
                /\ diag' = Append(diag, "Unknown option")
                /\ out' = Append(out, Note("usage", "help", 0))
                /\ failures' = Append(failures, "unknown_option")
                /\ Exit(1)
           [] outcome = "nodev" ->
                /\ diag' = Append(diag, "missing block device!")
                /\ failures' = Append(failures, "missing_device")
                /\ Exit(1)
                /\ UNCHANGED out
           [] outcome = "ok" ->
                /\ pc' = "open"
                /\ UNCHANGED << out, diag, failures, exitcode >>
    /\ UNCHANGED << dev, cfg, fsckLocals, siLocals, dxLocals, reads >>

\* open(cfg.dev, O_RDWR); on failure numbfs_fsck returns -errno to main.
OpenDev ==
    /\ pc = "open"
    /\ \E e \in {0, 2, 13} :
         IF e # 0
         THEN /\ err' = -e
              /\ failures' = Append(failures, "open")
              /\ diag' = Append(diag, "Error occured in fsck")
              /\ Exit(1)
         ELSE /\ pc' = "get_sb"
              /\ UNCHANGED << err, failures, diag, exitcode >>
    /\ UNCHANGED << dev, cfg, sbi, i, cnt, buf, siLocals, dxLocals, out, reads >>

(* ---------------------------------------------------------------------- *)
(* numbfs_fsck: superblock summary                                         *)
(* ---------------------------------------------------------------------- *)
SuperblockLines(sb) ==
    << Note("sb", "title", 0),
       Note("sb", "ibitmap_start", sb.ibitmap_start),
       Note("sb", "inode_start", sb.inode_start),
       Note("sb", "bbitmap_start", sb.bbitmap_start),
       Note("sb", "data_start", sb.data_start),
       Note("sb", "free_inodes", sb.free_inodes),
       Note("sb", "total_inodes", sb.total_inodes),
       Note("sb", "free_blocks", sb.free_blocks),
       Note("sb", "data_blocks", sb.data_blocks) >>

GetSuperblock ==
    /\ pc = "get_sb"
    /\ \E ok \in BOOLEAN :
         /\ reads' = Append(reads, Read("sb", 1, ok))
         /\ IF ok
            THEN /\ sbi' = dev.sb
                 /\ err' = 0
                 /\ out' = out \o SuperblockLines(dev.sb)
                 /\ pc' = "inodes"
                 /\ UNCHANGED << diag, failures >>
            ELSE /\ err' = -EIO
                 /\ diag' = Append(diag, "failed to read superblock")
                 /\ failures' = Append(failures, "superblock")
                 /\ pc' = "exit"
                 /\ UNCHANGED << sbi, out >>
    /\ UNCHANGED << dev, cfg, i, cnt, buf, siLocals, dxLocals, exitcode >>

(* ---------------------------------------------------------------------- *)
(* numbfs_fsck: inode-bitmap and block-bitmap usage                        *)
(* ---------------------------------------------------------------------- *)
ShowInodes(c) == c.show_inodes

ShowBlocksAsInodes(c) == c.show_inodes

ShowBlocks(c) == c.show_blocks

ShowNid(c) == c.nid >= 0

\* if (cfg.show_inodes) { cnt = 0; for (i = sbi.ibitmap_start; ...
InodesBegin ==
    /\ pc = "inodes"
    /\ IF ShowInodes(cfg)
       THEN /\ cnt' = 0
            /\ i' = sbi.ibitmap_start
            /\ pc' = "inodes_loop"
       ELSE /\ pc' = "blocks"
            /\ UNCHANGED << cnt, i >>
    /\ UNCHANGED << dev, cfg, sbi, buf, err, siLocals, dxLocals, out, diag,
                    exitcode, reads, failures >>

\* One iteration of a bitmap loop: pread of block i, then cnt += used bits.
BitmapIteration(zone) ==
    \E ok \in BOOLEAN :
        /\ reads' = Append(reads, Read(zone, i, ok))
        /\ dev' = DevAfterPread(dev, i)
        /\ IF ok
           THEN /\ buf' = PreadBlock(dev, i)
                /\ cnt' = cnt + numbfs_fsck_used(buf'.blk)
                /\ i' = i + 1
                /\ err' = BYTES_PER_BLOCK
                /\ UNCHANGED << pc, diag, failures >>
           ELSE /\ diag' = Append(diag, "failed to read block")
                /\ failures' = Append(failures, "bitmap_read")
                /\ err' = -EIO
                /\ pc' = "exit"
                /\ UNCHANGED << buf, cnt, i >>
        /\ UNCHANGED << cfg, sbi, siLocals, dxLocals, out, exitcode >>

\* After a bitmap loop: BUG_ON(cnt != total - free), then the usage line.
BitmapCheck(sec, total, free, next) ==
    /\ IF BUG_ON(cnt # total - free)
       THEN /\ failures' = Append(failures, "mismatch")
            /\ Exit(134)
            /\ UNCHANGED out
       ELSE /\ out' = Append(out, Note(sec, "usage", cnt))
            /\ pc' = next
            /\ UNCHANGED << failures, exitcode >>
    /\ UNCHANGED << dev, cfg, fsckLocals, siLocals, dxLocals, diag, reads >>

InodesLoop ==
    /\ pc = "inodes_loop"
    /\ i < sbi.inode_start
    /\ BitmapIteration("ibitmap")

InodesCheck ==
    /\ pc = "inodes_loop"
    /\ ~(i < sbi.inode_start)
    /\ BitmapCheck("inodes", sbi.total_inodes, sbi.free_inodes, "blocks")

BlocksBegin ==
    /\ pc = "blocks"
    /\ IF ShowBlocks(cfg)
       THEN /\ cnt' = 0
            /\ i' = sbi.bbitmap_start
            /\ pc' = "blocks_loop"
       ELSE /\ pc' = "nid"
            /\ UNCHANGED << cnt, i >>
    /\ UNCHANGED << dev, cfg, sbi, buf, err, siLocals, dxLocals, out, diag,
                    exitcode, reads, failures >>

BlocksLoop ==
    /\ pc = "blocks_loop"
    /\ i < sbi.data_start
    /\ BitmapIteration("bbitmap")

BlocksCheck ==
    /\ pc = "blocks_loop"
    /\ ~(i < sbi.data_start)
    /\ BitmapCheck("blocks", sbi.data_blocks, sbi.free_blocks, "nid")

\* if (cfg.nid >= 0) numbfs_fsck_show_inode(&sbi, cfg.nid); else err = 0
NidBegin ==
    /\ pc = "nid"
    /\ IF ShowNid(cfg)
       THEN /\ pc' = "si_get"
            /\ UNCHANGED err
       ELSE /\ err' = 0
            /\ pc' = "exit"
    /\ UNCHANGED << dev, cfg, sbi, i, cnt, buf, siLocals, dxLocals, out, diag,
                    exitcode, reads, failures >>

(* ---------------------------------------------------------------------- *)
(* numbfs_fsck_show_inode                                                  *)
(* ---------------------------------------------------------------------- *)
InodeTypeName(mode) ==
    IF S_ISDIR(mode) THEN "DIR"
    ELSE IF S_ISLNK(mode) THEN "SYMLINK"
    ELSE "REGULAR FILE"

InodeLines(nid, inode, nt) ==
    << Note("inode", "rule", 0),
       Note("inode", "title", 0),
       Note("inode", "number", nid),
       Line("inode", "type", 0, InodeTypeName(inode.mode), << >>, << >>),
       Note("inode", "nlink", inode.nlink),
       Note("inode", "uid", inode.uid),
       Note("inode", "gid", inode.gid),
       Note("inode", "atime", nt.t_atime),
       Note("inode", "mtime", nt.t_mtime),
       Note("inode", "ctime", nt.t_ctime),
       Note("inode", "size", inode.size) >>

\* malloc, ni->nid = nid, numbfs_get_inode
ShowInodeGet ==
    /\ pc = "si_get"
    /\ \E r \in {"nomem", "fail", "ok"} :
         CASE r = "nomem" ->
                /\ si_err' = -ENOMEM
                /\ failures' = Append(failures, "malloc")
                /\ pc' = "si_return"
                /\ UNCHANGED << ni, diag, reads >>
           [] r = "fail" ->
                /\ si_err' = -EIO
                /\ reads' = Append(reads, Read("inode", cfg.nid, FALSE))
                /\ diag' = Append(diag, "error: failed to get inode information")
                /\ failures' = Append(failures, "get_inode")
                /\ pc' = "si_return"
                /\ UNCHANGED ni
           [] r = "ok" ->
                /\ si_err' = 0
                /\ reads' = Append(reads, Read("inode", cfg.nid, TRUE))
                /\ ni' = dev.inodes[cfg.nid]
                /\ pc' = "si_read_xattr"
                /\ UNCHANGED << diag, failures >>
    /\ UNCHANGED << dev, cfg, fsckLocals, si_i, si_buf, dxLocals, out, exitcode >>

\* numbfs_read_block of the attribute block, then the inode's metadata.
ShowInodeMeta ==
    /\ pc = "si_read_xattr"
    /\ \E ok \in BOOLEAN :
         /\ reads' = Append(reads, Read("xattr_si", ni.xattr_start, ok))
         /\ IF ok
            THEN /\ si_err' = 0
                 /\ si_buf' = [kind |-> "date"]
                 /\ out' = out \o InodeLines(cfg.nid, ni,
                                   ReadXattrBlock(dev, sbi, ni.xattr_start).blk.ts)
                 /\ pc' = "dx_begin"
                 /\ UNCHANGED << diag, failures >>
            ELSE /\ si_err' = -EIO
                 /\ diag' = Append(diag, "error: failed to read xattr block")
                 /\ failures' = Append(failures, "xattr_read")
                 /\ pc' = "si_return"
                 /\ UNCHANGED << si_buf, out >>
    /\ UNCHANGED << dev, cfg, fsckLocals, ni, si_i, dxLocals, exitcode >>

(* ---------------------------------------------------------------------- *)
(* numbfs_dump_xattrs                                                      *)
(* ---------------------------------------------------------------------- *)
\* if (!ni->xattr_count) return;
DumpRuns(inode) == inode.xattr_count # 0

SlotNeverSkipped(xe) == FALSE

\* if (!xe->e_valid) continue;
SlotSkipped(xe) == xe.e_valid = 0

XattrLine(xe, tn, tv) ==
    Line("inode", "xattr", xe.e_type, "",
         PrintfS(PadField(NUMBFS_XATTR_MAXNAME, xe.e_name, xe.e_nlen), tn),
         PrintfS(PadField(NUMBFS_XATTR_MAXVALUE, xe.e_value, xe.e_vlen), tv))

DumpXattrsBegin ==
    /\ pc = "dx_begin"
    /\ IF ~DumpRuns(ni)
       THEN /\ pc' = "si_after_dump"
            /\ UNCHANGED << dxLocals, out, diag, reads, failures >>
       ELSE \E ok \in BOOLEAN :
            /\ reads' = Append(reads, Read("xattr_dx", ni.xattr_start, ok))
            /\ IF ok
               THEN /\ dx_buf' = ReadXattrBlock(dev, sbi, ni.xattr_start)
                    /\ out' = out \o << Note("inode", "xattr_rule", 0),
                                        Note("inode", "xattr_count", ni.xattr_count) >>
                    /\ dx_i' = 0
                    /\ pc' = "dx_loop"
                    /\ UNCHANGED << diag, failures >>
               ELSE /\ diag' = Append(diag, "error: failed to read xattr block")
                    /\ failures' = Append(failures, "xattr_read_dump")
                    /\ pc' = "si_after_dump"
                    /\ UNCHANGED << dxLocals, out >>
    /\ UNCHANGED << dev, cfg, fsckLocals, siLocals, exitcode >>

DumpXattrsSlot ==
    /\ pc = "dx_loop"
    /\ dx_i < NUMBFS_XATTR_MAX_ENTRY
    /\ IF SlotSkipped(XattrSlot(dx_buf, dx_i))
       THEN UNCHANGED out
       ELSE \E tn \in GarbageTails, tv \in GarbageTails :
               out' = Append(out, XattrLine(XattrSlot(dx_buf, dx_i), tn, tv))
    /\ dx_i' = dx_i + 1
    /\ UNCHANGED << pc, dev, cfg, fsckLocals, siLocals, dx_buf, diag, exitcode,
                    reads, failures >>

DumpXattrsEnd ==
    /\ pc = "dx_loop"
    /\ ~(dx_i < NUMBFS_XATTR_MAX_ENTRY)
    /\ out' = Append(out, Note("inode", "xattr_rule", 0))
    /\ pc' = "si_after_dump"
    /\ UNCHANGED << dev, cfg, fsckLocals, siLocals, dxLocals, diag, exitcode,
                    reads, failures >>

(* ---------------------------------------------------------------------- *)
(* numbfs_fsck_show_inode: directory content                               *)
(* ---------------------------------------------------------------------- *)
\* printf("\n"); if (S_ISDIR(ni->mode)) { printf("    DIR CONTENT\n"); i = 0
ShowInodeAfterDump ==
    /\ pc = "si_after_dump"
    /\ IF S_ISDIR(ni.mode)
       THEN /\ out' = out \o << Note("inode", "blank", 0), Note("inode", "dir_title", 0) >>
            /\ si_i' = 0
            /\ pc' = "dir_loop"
       ELSE /\ out' = Append(out, Note("inode", "blank", 0))
            /\ pc' = "si_return"
            /\ UNCHANGED si_i
    /\ UNCHANGED << dev, cfg, fsckLocals, ni, si_buf, si_err, dxLocals, diag,
                    exitcode, reads, failures >>

NeedFetchFirstOnly(off) == off = 0

NeedFetch(off) == off % BYTES_PER_BLOCK = 0

NextOffsetSkipping(off) == off + 2 * DirentSize

NextOffset(off) == off + DirentSize

DirentLine(d) ==
    Line("inode", "dirent", le16_to_cpu(d.ino_lo, d.ino_hi), numbfs_dir_type(d.type),
         << d.name_len >>, << >>)

\* One iteration of the walk: fetch the block when the offset starts one,
\* print the entry at the offset, advance.
DirWalkStep ==
    /\ pc = "dir_loop"
    /\ si_i < ni.size
    /\ \E ok \in BOOLEAN :
         IF NeedFetch(si_i) /\ ~ok
         THEN /\ reads' = Append(reads, Read("dir", si_i, FALSE))
              /\ si_err' = -EIO
              /\ diag' = Append(diag, "error: failed to read block of inode")
              /\ failures' = Append(failures, "dir_read")
              /\ pc' = "si_return"
              /\ UNCHANGED << si_i, si_buf, out >>
         ELSE LET b == IF NeedFetch(si_i) THEN PreadInode(dev, ni, si_i) ELSE si_buf
              IN  /\ reads' = IF NeedFetch(si_i)
                              THEN Append(reads, Read("dir", si_i, TRUE))
                              ELSE reads
                  /\ si_err' = IF NeedFetch(si_i) THEN 0 ELSE si_err
                  /\ si_buf' = b
                  /\ out' = Append(out, DirentLine(DirentAt(b, si_i % BYTES_PER_BLOCK)))
                  /\ si_i' = NextOffset(si_i)
                  /\ UNCHANGED << pc, diag, failures >>
    /\ UNCHANGED << dev, cfg, fsckLocals, ni, dxLocals, exitcode >>

DirWalkEnd ==
    /\ pc = "dir_loop"
    /\ ~(si_i < ni.size)
    /\ pc' = "si_return"
    /\ UNCHANGED << dev, cfg, fsckLocals, siLocals, dxLocals, out, diag, exitcode,
                    reads, failures >>

(* ---------------------------------------------------------------------- *)
(* Return to numbfs_fsck and to main                                       *)
(* ---------------------------------------------------------------------- *)
\* exit: free(ni); return err;  then in numbfs_fsck: if (err) ... goto exit
ShowInodeReturn ==
    /\ pc = "si_return"
    /\ err' = si_err
    /\ IF si_err # 0
       THEN diag' = Append(diag, "error: failed to show inode information")
       ELSE UNCHANGED diag
    /\ pc' = "exit"
    /\ UNCHANGED << dev, cfg, sbi, i, cnt, buf, siLocals, dxLocals, out, exitcode,
                    reads, failures >>

\* exit: close(fd); free(cfg.dev); return err;  then main: if (err) exit(1)
FsckReturn ==
    /\ pc = "exit"
    /\ IF err # 0
       THEN /\ diag' = Append(diag, "Error occured in fsck")
            /\ Exit(1)
       ELSE /\ Exit(0)
            /\ UNCHANGED diag
    /\ UNCHANGED << dev, cfg, fsckLocals, siLocals, dxLocals, out, reads, failures >>

Next ==
    \/ ParseArgs
    \/ OpenDev
    \/ GetSuperblock
    \/ InodesBegin
    \/ InodesLoop
    \/ InodesCheck
    \/ BlocksBegin
    \/ BlocksLoop
    \/ BlocksCheck
    \/ NidBegin
    \/ ShowInodeGet
    \/ ShowInodeMeta
    \/ DumpXattrsBegin
    \/ DumpXattrsSlot
    \/ DumpXattrsEnd
    \/ ShowInodeAfterDump
    \/ DirWalkStep
    \/ DirWalkEnd
    \/ ShowInodeReturn
    \/ FsckReturn

Spec == Init /\ [][Next]_vars

\* The process is sequential and runs to its end: its next step is taken.
FairSpec == Spec /\ WF_vars(Next)

(* ---------------------------------------------------------------------- *)
(* Properties                                                              *)
(* ---------------------------------------------------------------------- *)
Ceil(a, b) == (a + b - 1) \div b

LinesOf(kind) == SelectSeq(out, LAMBDA l : l.kind = kind)

HasSection(sec) == \E k \in 1..Len(out) : out[k].sec = sec

ReadsOf(op) == SelectSeq(reads, LAMBDA r : r.op = op)

OkReadsOf(op) == SelectSeq(reads, LAMBDA r : r.op = op /\ r.ok)

SuperblockRead == Len(OkReadsOf("sb")) > 0

ReadFailureKinds == {"bitmap_read", "get_inode", "xattr_read", "xattr_read_dump", "dir_read"}

ReadFailed == \E k \in 1..Len(failures) : failures[k] \in ReadFailureKinds

\* C1: the device is never written: no step changes its contents, so they
\* are at the end of every run what they were at its start.
C1_ReadOnly == [][dev' = dev]_vars

C1_Witness ==
    /\ pc = "exited"
    /\ Len(OkReadsOf("ibitmap")) > 0
    /\ Len(OkReadsOf("bbitmap")) > 0
    /\ Len(OkReadsOf("dir")) > 0

ZoneBlocks(op, from, to) == [k \in 1..(to - from) |-> Read(op, from + k - 1, TRUE)]

\* C2: while a bitmap loop runs, cnt is the number of set bits of the zone's
\* blocks before block i and exactly those blocks were read, once each and
\* in order; so when the loop ends cnt is the number of set bits of the zone.
C2_BitmapCount ==
    /\ pc = "inodes_loop" =>
         /\ i \in sbi.ibitmap_start .. sbi.inode_start
         /\ cnt = ZoneBits(dev.bitmap, sbi.ibitmap_start, i)
         /\ ReadsOf("ibitmap") = ZoneBlocks("ibitmap", sbi.ibitmap_start, i)
    /\ pc = "blocks_loop" =>
         /\ i \in sbi.bbitmap_start .. sbi.data_start
         /\ cnt = ZoneBits(dev.bitmap, sbi.bbitmap_start, i)
         /\ ReadsOf("bbitmap") = ZoneBlocks("bbitmap", sbi.bbitmap_start, i)

C2_Witness ==
    /\ pc = "blocks_loop"
    /\ i = sbi.data_start
    /\ i - sbi.bbitmap_start >= 2
    /\ cnt > 8
    /\ \E b \in sbi.bbitmap_start .. (sbi.data_start - 1) : ByteAt(dev.bitmap[b], 511) >= 128

InodeZoneMismatch ==
    ZoneBits(dev.bitmap, dev.sb.ibitmap_start, dev.sb.inode_start)
        # dev.sb.total_inodes - dev.sb.free_inodes

BlockZoneMismatch ==
    ZoneBits(dev.bitmap, dev.sb.bbitmap_start, dev.sb.data_start)
        # dev.sb.data_blocks - dev.sb.free_blocks

OnlyMismatches == \A k \in 1..Len(failures) : failures[k] = "mismatch"

\* C3: a mismatch between the audited used-count of a zone and the
\* superblock's total - free stops that check only: in a run with no other
\* failure the zone's usage line is not printed and every other requested
\* section is still written.
C3_MismatchStopsOneCheck ==
    (pc = "exited" /\ SuperblockRead /\ OnlyMismatches) =>
        /\ (cfg.show_inodes /\ InodeZoneMismatch) => ~HasSection("inodes")
        /\ (cfg.show_blocks /\ BlockZoneMismatch) => ~HasSection("blocks")
        /\ (cfg.show_blocks /\ ~BlockZoneMismatch) => HasSection("blocks")
        /\ (cfg.nid >= 0) => HasSection("inode")

Rank(l) ==
    CASE l.sec = "usage" -> 0
      [] l.sec = "sb" -> 1
      [] l.sec = "inodes" -> 2
      [] l.sec = "blocks" -> 3
      [] l.sec = "inode" ->
           IF l.kind \in {"xattr_rule", "xattr_count", "xattr"} THEN 5
           ELSE IF l.kind \in {"blank", "dir_title", "dirent"} THEN 6
           ELSE 4

\* C4: once the superblock is read its summary is the first thing written;
\* the sections follow in the order superblock, inode usage, block usage,
\* inode metadata, attribute dump, directory listing; and a run that ends
\* with no failure holds each optional section exactly when its option was
\* selected.
C4_SectionOrder ==
    /\ SuperblockRead =>
         /\ Len(out) >= Len(SuperblockLines(dev.sb))
         /\ SubSeq(out, 1, Len(SuperblockLines(dev.sb))) = SuperblockLines(dev.sb)
    /\ \A k \in 1..(Len(out) - 1) : Rank(out[k]) <= Rank(out[k + 1])
    /\ (pc = "exited" /\ SuperblockRead /\ failures = << >>) =>
         /\ HasSection("inodes") <=> cfg.show_inodes
         /\ HasSection("blocks") <=> cfg.show_blocks
         /\ HasSection("inode") <=> cfg.nid >= 0

C4_Witness ==
    /\ pc = "exited"
    /\ failures = << >>
    /\ cfg.show_inodes /\ ~cfg.show_blocks /\ cfg.nid >= 0
    /\ HasSection("inodes") /\ ~HasSection("blocks")
    /\ Len(LinesOf("xattr")) > 0
    /\ Len(LinesOf("dirent")) > 0

StoredRecord(inode, j) ==
    dev.dblocks[inode.data[(((j - 1) * DirentSize) \div BYTES_PER_BLOCK) + 1]]
               [((j - 1) % DirentsPerBlock) + 1]

WalkEnded ==
    /\ pc = "si_return"
    /\ si_err = 0
    /\ S_ISDIR(ni.mode)
    /\ Len(LinesOf("dir_title")) = 1

\* C5: when the walk over a directory of n * 64 bytes ends with every read
\* succeeded, it has written exactly n entries, the j-th one carrying the
\* inode number, type and name length of the j-th 64-byte record stored in
\* the inode's content.
C5_DirectoryComplete ==
    (WalkEnded /\ ni.size % DirentSize = 0) =>
        /\ Len(LinesOf("dirent")) = ni.size \div DirentSize
        /\ \A j \in 1..Len(LinesOf("dirent")) :
              /\ LinesOf("dirent")[j].n =
                    StoredRecord(ni, j).ino_lo + 256 * StoredRecord(ni, j).ino_hi
              /\ LinesOf("dirent")[j].t = numbfs_dir_type(StoredRecord(ni, j).type)
              /\ LinesOf("dirent")[j].s1 = << StoredRecord(ni, j).name_len >>

C5_Witness ==
    /\ WalkEnded
    /\ ni.size = MaxDirEntries * DirentSize
    /\ Len(LinesOf("dirent")) = MaxDirEntries
    /\ Len(OkReadsOf("dir")) >= 3

Spaces(n) == [k \in 1..n |-> SPACE]

ValidSlots(inode) ==
    SelectSeq(dev.xblocks[inode.xattr_start].slots, LAMBDA xe : xe.e_valid # 0)

\* C6: every attribute line shows the name in a field of exactly 16
\* characters, the name bytes then spaces, and the value in a field of
\* exactly 32 characters, the value bytes then spaces.
C6_FieldWidths ==
    (pc = "si_after_dump" /\ Len(LinesOf("xattr")) > 0) =>
        \A k \in 1..Len(LinesOf("xattr")) :
            LET xe == ValidSlots(ni)[k]
                l  == LinesOf("xattr")[k]
            IN  /\ l.s1 = SubSeq(xe.e_name, 1, xe.e_nlen)
                            \o Spaces(NUMBFS_XATTR_MAXNAME - xe.e_nlen)
                /\ l.s2 = SubSeq(xe.e_value, 1, xe.e_vlen)
                            \o Spaces(NUMBFS_XATTR_MAXVALUE - xe.e_vlen)

\* C7: the exit code is 0 exactly when the run met no failure.
C7_ExitCode == pc = "exited" => (exitcode = 0 <=> failures = << >>)

\* C8: once a read has failed nothing more is written to standard output,
\* and a diagnostic is written for the failure.
C8_FailureStopsOutput ==
    [][ReadFailed => (out' = out /\ Len(diag) > 0)]_vars

DirReadOffsets(n) == [k \in 1..n |-> Read("dir", (k - 1) * BYTES_PER_BLOCK, TRUE)]

C9_WalkInvariant ==
    /\ pc = "dir_loop" =>
         /\ si_i >= 0
         /\ si_i % DirentSize = 0
         /\ si_i < ni.size + DirentSize
         /\ Len(LinesOf("dirent")) = si_i \div DirentSize
         /\ ReadsOf("dir") = DirReadOffsets(Ceil(si_i, BYTES_PER_BLOCK))
         /\ si_i > 0 =>
              /\ si_buf = PreadInode(dev, ni, ReadsOf("dir")[Len(ReadsOf("dir"))].blk)
              /\ out[Len(out)] =
                    DirentLine(DirentAt(si_buf, (si_i - DirentSize) % BYTES_PER_BLOCK))
    /\ (WalkEnded /\ ni.size >= 0) =>
         /\ si_i >= ni.size
         /\ si_i % DirentSize = 0
         /\ si_i < ni.size + DirentSize
         /\ Len(LinesOf("dirent")) = Ceil(ni.size, DirentSize)
         /\ ReadsOf("dir") = DirReadOffsets(Ceil(ni.size, BYTES_PER_BLOCK))

\* C9: the walk's offset runs from 0 in strides of 64 bytes; a block is read
\* exactly at the offsets that are multiples of the block size; each entry
\* written is the one at the offset in the block read last; the walk ends
\* at the first offset >= size, having read ceil(size / block size) blocks
\* and written ceil(size / 64) entries, the trailing partial record
\* included; and the walk always ends.
C9_Walk == [] C9_WalkInvariant /\ ((pc = "dir_loop") ~> (pc = "si_return"))

C9_Witness ==
    /\ WalkEnded
    /\ ni.size = BYTES_PER_BLOCK + DirentSize + 1
    /\ Len(LinesOf("dirent")) = DirentsPerBlock + 2
    /\ Len(OkReadsOf("dir")) = 2

MaxSlots == (BYTES_PER_BLOCK - 32) \div XattrEntrySize

\* C10: the dump reads the attribute block only when xattr_count is not 0;
\* when it has read it, it scans every slot up to the maximum slot count and
\* writes one line per valid slot, in slot order, and none for the others,
\* whatever xattr_count is.
C10_AttributeDump ==
    /\ Len(ReadsOf("xattr_dx")) > 0 => ni.xattr_count > 0
    /\ Len(OkReadsOf("xattr_dx")) = 0 => Len(LinesOf("xattr")) = 0
    /\ pc = "dx_loop" => dx_i \in 0..MaxSlots
    /\ (pc = "si_after_dump" /\ Len(OkReadsOf("xattr_dx")) > 0) =>
         /\ dx_i = MaxSlots
         /\ Len(LinesOf("xattr")) = Len(ValidSlots(ni))
         /\ \A k \in 1..Len(LinesOf("xattr")) :
               LET xe == ValidSlots(ni)[k]
                   l  == LinesOf("xattr")[k]
               IN  /\ l.n = xe.e_type
                   /\ SubSeq(l.s1, 1, xe.e_nlen) = SubSeq(xe.e_name, 1, xe.e_nlen)
                   /\ SubSeq(l.s2, 1, xe.e_vlen) = SubSeq(xe.e_value, 1, xe.e_vlen)

C10_Witness ==
    /\ pc = "si_after_dump"
    /\ Len(OkReadsOf("xattr_dx")) > 0
    /\ ni.xattr_count = 1
    /\ Len(LinesOf("xattr")) = 4

=============================================================================
